---- MODULE Spec2Model ----
(***************************************************************************)
(* Model of op-program/l2/engineapi/l2_engine_api.go: the L2EngineAPI      *)
(* block builder (startBlock / IncludeTx / endBlock / GetPayloadV1), the   *)
(* fork-choice controller (ForkchoiceUpdatedV1) and the payload insertion  *)
(* path (NewPayloadV1), running against an EngineBackend.                  *)
(*                                                                         *)
(* Hashes are small naturals: 0 is the zero hash, 1..9 are the hashes of    *)
(* the blocks of a fixed block universe.  A header / block is              *)
(* identified with its hash; a nil header is 0.                            *)
(***************************************************************************)
EXTENDS Integers, Sequences, FiniteSets, TLC

VARIABLES
    ea,        \* the L2EngineAPI struct (block building fields)
    backend,   \* the EngineBackend behind ea.backend
    lastCall,  \* the last driver call: its arguments, result and backend calls made
    build      \* the last startBlock call that reached its field assignments

vars == <<ea, backend, lastCall, build>>

----------------------------------------------------------------------------
(* Bounds of the model *)

\* largest gas of a transaction and largest block gas limit
MaxGas == 2
\* cap on the length of the never-reset failed-transaction log
MaxFailed == 1

----------------------------------------------------------------------------
(* The block universe: every block the driver or the backend may mention *)

ZeroHash == 0

Blocks == 1..9

\* parent hash of each block of the universe
ParentHash(b) ==
    CASE b = 1 -> ZeroHash
      [] b = 2 -> 1
      [] b = 3 -> 2
      [] b = 4 -> 2
      [] b = 5 -> 3
      [] b = 6 -> 1
      [] b = 7 -> 5
      [] b = 8 -> 2
      [] OTHER -> 2

\* block number of each block (block 9 skips a height above its parent)
Number(b) ==
    CASE b = 1 -> 0
      [] b = 2 -> 1
      [] b \in {3, 4, 8} -> 2
      [] b = 6 -> 1
      [] b = 7 -> 4
      [] OTHER -> 3

\* timestamp of each block (blocks 5 and 6 do not advance their parent's)
Time(b) ==
    CASE b = 1 -> 1
      [] b = 2 -> 2
      [] b = 3 -> 3
      [] b = 4 -> 4
      [] b = 5 -> 3
      [] b = 6 -> 1
      [] b = 7 -> 7
      [] b = 8 -> 5
      [] OTHER -> 6

\* difficulty: block 1 is a pre-merge block
Difficulty(b) == IF b = 1 THEN 1 ELSE 0

\* blocks whose execution the backend rejects on insertion
BadBlocks == {8}

Heights == 0..3

----------------------------------------------------------------------------
(* EngineBackend, src lines 27-50 *)

GetHeaderByHash(bk, h) == IF h \in bk.known THEN h ELSE ZeroHash

GetBlockByHash(bk, h) == IF h \in bk.known THEN h ELSE ZeroHash

GetBlock(bk, h, n) == IF h \in bk.known /\ Number(h) = n THEN h ELSE ZeroHash

HasBlockAndState(bk, h, n) == h \in bk.known /\ Number(h) = n /\ h \in bk.hasState

GetCanonicalHash(bk, n) == IF n \in Heights THEN bk.canon[n] ELSE ZeroHash

CurrentBlock(bk) == bk.current

\* StateAt(root): TRUE iff a state view at the block's root can be opened
StateAt(bk, h) == h \in bk.hasState

RECURSIVE Ancestor(_, _)
Ancestor(b, n) ==
    IF b = ZeroHash \/ Number(b) <= n THEN b ELSE Ancestor(ParentHash(b), n)

\* SetCanonical(head): fails when the head's state is missing; otherwise the
\* head and its ancestors become canonical, entries above the head are dropped
SetCanonical(bk, b) ==
    IF b \notin bk.hasState
    THEN [ok |-> FALSE, latestValid |-> ZeroHash, backend |-> bk]
    ELSE [ok |-> TRUE, latestValid |-> b,
          backend |-> [bk EXCEPT
              !.current = b,
              !.canon = [n \in Heights |->
                            IF n <= Number(b) THEN Ancestor(b, n) ELSE ZeroHash]]]

SetFinalized(bk, h) == [bk EXCEPT !.final = h]

SetSafe(bk, h) == [bk EXCEPT !.safe = h]

\* InsertBlockWithoutSetHead(block): stores the block and its state unless
\* its execution is rejected; the canonical chain is untouched
InsertBlockWithoutSetHead(bk, b) ==
    IF b \in BadBlocks
    THEN [ok |-> FALSE, backend |-> bk]
    ELSE [ok |-> TRUE,
          backend |-> [bk EXCEPT !.known = @ \cup {b}, !.hasState = @ \cup {b}]]

----------------------------------------------------------------------------
(* Transactions and payload attributes *)

\* A raw (opaque, encoded) transaction is a byte string.  A two-byte string
\* <<tag, gas>> decodes to a transaction; any other length does not decode.
BadTx == [ok |-> FALSE, hash |-> <<>>, gas |-> 0]

\* types.Transaction.UnmarshalBinary
UnmarshalBinary(raw) ==
    IF Len(raw) = 2 THEN [ok |-> TRUE, hash |-> raw, gas |-> raw[2]] ELSE BadTx

Senders == {"alice", "bob"}

NilAttr ==
    [nil |-> TRUE, Timestamp |-> 0, PrevRandao |-> 0, SuggestedFeeRecipient |-> 0,
     NoTxPool |-> FALSE, Transactions |-> <<>>, GasLimit |-> 0]

Attr(ts, noPool, txs, gasLimit) ==
    [nil |-> FALSE, Timestamp |-> ts, PrevRandao |-> 0, SuggestedFeeRecipient |-> 0,
     NoTxPool |-> noPool, Transactions |-> txs, GasLimit |-> gasLimit]

ZeroPayloadID == <<>>

RECURSIVE lengthPrefixed(_)
lengthPrefixed(txs) ==
    IF txs = <<>> THEN <<>>
    ELSE <<Len(Head(txs))>> \o Head(txs) \o lengthPrefixed(Tail(txs))

\* computePayloadId: the digest is modelled by the byte string that is hashed
\* (sha256 truncated to 8 bytes is taken to be injective on these inputs)
computePayloadId(headBlockHash, params) ==
    <<headBlockHash, params.Timestamp, params.PrevRandao,
      params.SuggestedFeeRecipient, IF params.NoTxPool THEN 1 ELSE 0,
      Len(params.Transactions)>>
    \o lengthPrefixed(params.Transactions)
    \o <<params.GasLimit>>

----------------------------------------------------------------------------
(* Block builder *)

\* the header under construction; its base fee, a function of the parent
\* header alone (misc.CalcBaseFee), is not represented
NilHeader ==
    [nil |-> TRUE, ParentHash |-> ZeroHash, Coinbase |-> 0, Number |-> 0,
     GasLimit |-> 0, Time |-> 0, MixDigest |-> 0, GasUsed |-> 0]

NilState == [nil |-> TRUE, root |-> ZeroHash, applied |-> <<>>]

\* a nil *core.GasPool
NilGasPool == -1

\* NewL2EngineAPI: every building field is the zero value
NewL2EngineAPI ==
    [l2BuildingHeader |-> NilHeader,
     l2BuildingState  |-> NilState,
     l2GasPool        |-> NilGasPool,
     pendingIndices   |-> [s \in Senders |-> 0],
     l2Transactions   |-> <<>>,
     l2Receipts       |-> <<>>,
     l2ForceEmpty     |-> FALSE,
     l2TxFailed       |-> <<>>,
     payloadID        |-> ZeroPayloadID]

\* RemainingBlockGas: the gas left in the pool; reading the nil pool of an
\* engine that never assigned one (no startBlock got past its parent and
\* state lookups) is a nil pointer dereference, a panic
RemainingBlockGas(e) ==
    IF e.l2GasPool = NilGasPool
    THEN [panic |-> TRUE, gas |-> 0]
    ELSE [panic |-> FALSE, gas |-> e.l2GasPool]

ForcedEmpty(e) == e.l2ForceEmpty

PendingIndices(e, from) == e.pendingIndices[from]

\* core.ApplyTransaction against (gas pool, state): the outcomes the state
\* transition can produce.  The gas pool is charged tx.gas when gas is bought
\* and refunded what is left over on success; a failure before gas is bought
\* (nonce, balance, pool too small) leaves pool and state alone; a failure
\* after gas is bought (intrinsic gas, transfer funds) returns an error with
\* the pool already charged and the sender already debited.
ApplyTransaction(pool, tx) ==
    IF tx.gas > pool
    THEN {[err |-> "gas limit reached", pool |-> pool, used |-> 0, touched |-> FALSE]}
    ELSE {[err |-> "", pool |-> pool - u, used |-> u, touched |-> TRUE] : u \in 1..tx.gas}
         \cup {[err |-> "precheck", pool |-> pool, used |-> 0, touched |-> FALSE],
               [err |-> "intrinsic gas", pool |-> pool - tx.gas, used |-> 0,
                touched |-> TRUE]}

\* the effect of one ApplyTransaction outcome r on the builder's pool, header
\* gas-used counter and working state
Applied(e, tx, r) ==
    [e EXCEPT
        !.l2GasPool = r.pool,
        !.l2BuildingHeader.GasUsed = @ + r.used,
        !.l2BuildingState.applied = IF r.touched THEN Append(@, tx.hash) ELSE @]

\* mutant: the transaction is put in front of the list
AppendIncluded_InFront(e, tx, r) ==
    [e EXCEPT !.l2Receipts = Append(@, [tx |-> tx.hash, gasUsed |-> r.used]),
              !.l2Transactions = <<tx.hash>> \o @]

\* lines 147-148 and 201-202: the receipt and the transaction are appended
AppendIncluded(e, tx, r) ==
    [e EXCEPT !.l2Receipts = Append(@, [tx |-> tx.hash, gasUsed |-> r.used]),
              !.l2Transactions = Append(@, tx.hash)]

\* mutant: the sender's count is left alone
IncrementPending_Skipped(e, from) == e

\* line 139: the sender's count of consumed pool transactions goes up by one
IncrementPending(e, from) == [e EXCEPT !.pendingIndices[from] = @ + 1]

\* mutant: the force-empty flag is not consulted
SkipsInclusion_Never(e) == FALSE

\* line 126: no additional txs may be processed
SkipsInclusion(e) == e.l2ForceEmpty

\* IncludeTx(tx, from): the set of possible (builder, error) results
IncludeTx(e, tx, from) ==
    IF e.l2BuildingHeader.nil
    THEN {[ea |-> e, err |-> "ErrNotBuildingBlock", executed |-> FALSE]}
    ELSE IF SkipsInclusion(e)
    THEN {[ea |-> e, err |-> "", executed |-> FALSE]}
    ELSE IF tx.gas > e.l2BuildingHeader.GasLimit
    THEN {[ea |-> e, err |-> "ErrExceedsGasLimit", executed |-> FALSE]}
    ELSE IF tx.gas > e.l2GasPool
    THEN {[ea |-> e, err |-> "ErrUsesTooMuchGas", executed |-> FALSE]}
    ELSE LET e1 == IncrementPending(e, from) IN
         { IF r.err # ""
           THEN [ea |-> [Applied(e1, tx, r) EXCEPT !.l2TxFailed = Append(@, tx.hash)],
                 err |-> "invalid L2 block", executed |-> TRUE]
           ELSE [ea |-> AppendIncluded(Applied(e1, tx, r), tx, r),
                 err |-> "", executed |-> TRUE]
           : r \in ApplyTransaction(e1.l2GasPool, tx) }

\* the deposit loop of startBlock, from index i on: the set of possible results
RECURSIVE preProcessDeposits(_, _, _)
preProcessDeposits(e, txs, i) ==
    IF i > Len(txs) THEN {[ea |-> e, err |-> ""]}
    ELSE LET tx == UnmarshalBinary(txs[i]) IN
         IF ~tx.ok THEN {[ea |-> e, err |-> "transaction is not valid"]}
         ELSE UNION {
                IF r.err # ""
                THEN {[ea |-> [Applied(e, tx, r) EXCEPT !.l2TxFailed = Append(@, tx.hash)],
                       err |-> "failed to apply deposit transaction"]}
                ELSE preProcessDeposits(AppendIncluded(Applied(e, tx, r), tx, r),
                                        txs, i + 1)
                : r \in ApplyTransaction(e.l2GasPool, tx) }

\* mutant: the list of the previous build is kept
NewTransactions_Kept(e) == e.l2Transactions

\* line 182: a fresh, empty transaction list
NewTransactions(e) == <<>>

\* mutant: the id is computed from the parent of the header being replaced
NewPayloadID_StaleParent(e, parent, params) ==
    computePayloadId(e.l2BuildingHeader.ParentHash, params)

\* line 186: the id of the build that starts
NewPayloadID(e, parent, params) == computePayloadId(parent, params)

\* startBlock(parent, params): the set of possible (builder, error) results;
\* assigned tells whether the building fields were (re)assigned
startBlock(e, bk, parent, params) ==
    LET parentHeader == GetHeaderByHash(bk, parent) IN
    IF parentHeader = ZeroHash
    THEN {[ea |-> e, err |-> "uknown parent block", assigned |-> FALSE]}
    ELSE IF ~StateAt(bk, parentHeader)
    THEN {[ea |-> e, err |-> "failed to init state db", assigned |-> FALSE]}
    ELSE LET header == [nil |-> FALSE, ParentHash |-> parent,
                        Coinbase |-> params.SuggestedFeeRecipient,
                        Number |-> Number(parentHeader) + 1,
                        GasLimit |-> params.GasLimit,
                        Time |-> params.Timestamp,
                        MixDigest |-> params.PrevRandao, GasUsed |-> 0]
             e1 == [e EXCEPT
                      !.l2BuildingHeader = header,
                      !.l2BuildingState = [nil |-> FALSE, root |-> parentHeader,
                                           applied |-> <<>>],
                      !.l2Receipts = <<>>,
                      !.l2Transactions = NewTransactions(e),
                      !.pendingIndices = [s \in Senders |-> 0],
                      !.l2ForceEmpty = params.NoTxPool,
                      !.l2GasPool = header.GasLimit,
                      !.payloadID = NewPayloadID(e, parent, params)]
         IN { [ea |-> r.ea, err |-> r.err, assigned |-> TRUE]
              : r \in preProcessDeposits(e1, params.Transactions, 1) }

\* the sealed block handed out by endBlock / GetPayloadV1
NilBlock ==
    [nil |-> TRUE, ParentHash |-> ZeroHash, Coinbase |-> 0, Number |-> 0,
     GasLimit |-> 0, Time |-> 0, MixDigest |-> 0, GasUsed |-> 0,
     StateRoot |-> NilState, Transactions |-> <<>>, Receipts |-> <<>>]

\* endBlock
endBlock(e) ==
    IF e.l2BuildingHeader.nil
    THEN [ea |-> e, err |-> "no block is being built currently", block |-> NilBlock]
    ELSE LET header == e.l2BuildingHeader IN
         [ea |-> [e EXCEPT !.l2BuildingHeader = NilHeader],
          err |-> "",
          block |-> [nil |-> FALSE, ParentHash |-> header.ParentHash,
                     Coinbase |-> header.Coinbase,
                     Number |-> header.Number, GasLimit |-> header.GasLimit,
                     Time |-> header.Time, MixDigest |-> header.MixDigest,
                     GasUsed |-> header.GasLimit - e.l2GasPool,
                     StateRoot |-> e.l2BuildingState,
                     Transactions |-> e.l2Transactions,
                     Receipts |-> e.l2Receipts]]

\* mutant: any id is taken for the id of the build
PayloadIdMismatch_Never(e, payloadId) == FALSE

\* line 222: the requested id is not the stored one
PayloadIdMismatch(e, payloadId) == e.payloadID # payloadId

\* GetPayloadV1(payloadId)
GetPayloadV1(e, payloadId) ==
    IF PayloadIdMismatch(e, payloadId)
    THEN [ea |-> e, err |-> "UnknownPayload", block |-> NilBlock]
    ELSE LET r == endBlock(e) IN
         IF r.err # ""
         THEN [ea |-> r.ea, err |-> "UnknownPayload", block |-> NilBlock]
         ELSE r

----------------------------------------------------------------------------
(* Fork-choice controller *)

\* an optional hash: <<>> is a nil *common.Hash, <<h>> points to h
NilHashPtr == <<>>

\* result of one ForkchoiceUpdatedV1 call together with the state it leaves:
\* trace lists the mutating calls it made, in order; start is the startBlock
\* outcome ("" when startBlock was not invoked)
FcResult(e, bk, status, lvh, err, pid, trace, start) ==
    [ea |-> e, backend |-> bk, status |-> status, lvh |-> lvh, err |-> err,
     pid |-> pid, trace |-> trace, start |-> start]

STATUS_INVALID(e, bk, err, trace) ==
    FcResult(e, bk, "INVALID", NilHashPtr, err, ZeroPayloadID, trace, "")

\* mutant: the syncing result carries the invalid status
STATUS_SYNCING_AsInvalid(e, bk) ==
    FcResult(e, bk, "INVALID", NilHashPtr, "", ZeroPayloadID, <<>>, "")

STATUS_SYNCING(e, bk) ==
    FcResult(e, bk, "SYNCING", NilHashPtr, "", ZeroPayloadID, <<>>, "")

\* mutant: the bit length is compared with 1, missing difficulty 1
IsPreMerge_OffByOne(block) == Difficulty(block) > 1

\* line 251: the block is a pre-merge block
IsPreMerge(block) == Difficulty(block) > 0

\* mutant: the comparison with the canonical hash is inverted
HeadIsCanonical_Inverted(bk, block, state) ==
    GetCanonicalHash(bk, Number(block)) # state.HeadBlockHash

\* mutant: the head is never made canonical
HeadIsCanonical_Always(bk, block, state) == TRUE

\* line 260: the requested head is the canonical block of its height
HeadIsCanonical(bk, block, state) ==
    GetCanonicalHash(bk, Number(block)) = state.HeadBlockHash

\* mutant: the canonical hash is not compared at all
NotCanonical_Never(bk, header, hash) == FALSE

\* mutant: the comparison with the canonical hash is inverted
NotCanonical_Inverted(bk, header, hash) == GetCanonicalHash(bk, Number(header)) = hash

\* lines 281 and 295: the header is not the canonical one of its height
NotCanonical(bk, header, hash) == GetCanonicalHash(bk, Number(header)) # hash

\* lines 302-314: start a build when attributes are given
FcBuild(e, bk, state, attr, trace) ==
    IF ~attr.nil
    THEN { IF r.err # ""
           THEN FcResult(r.ea, bk, "INVALID", NilHashPtr, "InvalidPayloadAttributes",
                         ZeroPayloadID, Append(trace, "startBlock"),
                         IF r.assigned THEN "failed" ELSE "rejected")
           ELSE FcResult(r.ea, bk, "VALID", <<state.HeadBlockHash>>, "",
                         r.ea.payloadID, Append(trace, "startBlock"), "ok")
           : r \in startBlock(e, bk, state.HeadBlockHash, attr) }
    ELSE {FcResult(e, bk, "VALID", <<state.HeadBlockHash>>, "", ZeroPayloadID, trace, "")}

\* lines 288-301: the safe block hash
FcSafe(e, bk, state, attr, trace) ==
    IF state.SafeBlockHash # ZeroHash
    THEN LET safeHeader == GetHeaderByHash(bk, state.SafeBlockHash) IN
         IF safeHeader = ZeroHash
         THEN {STATUS_INVALID(e, bk, "safe block not available in database", trace)}
         ELSE IF NotCanonical(bk, safeHeader, state.SafeBlockHash)
         THEN {STATUS_INVALID(e, bk, "safe block not in canonical chain", trace)}
         ELSE FcBuild(e, SetSafe(bk, safeHeader), state, attr, Append(trace, "SetSafe"))
    ELSE FcBuild(e, bk, state, attr, trace)

\* lines 273-287: the finalized block hash
FcFinalized(e, bk, state, attr, trace) ==
    IF state.FinalizedBlockHash # ZeroHash
    THEN LET finalHeader == GetHeaderByHash(bk, state.FinalizedBlockHash) IN
         IF finalHeader = ZeroHash
         THEN {STATUS_INVALID(e, bk, "final block not available in database", trace)}
         ELSE IF NotCanonical(bk, finalHeader, state.FinalizedBlockHash)
         THEN {STATUS_INVALID(e, bk, "final block not in canonical chain", trace)}
         ELSE FcSafe(e, SetFinalized(bk, finalHeader), state, attr,
                     Append(trace, "SetFinalized"))
    ELSE FcSafe(e, bk, state, attr, trace)

\* ForkchoiceUpdatedV1(state, attr): the set of possible results
ForkchoiceUpdatedV1(e, bk, state, attr) ==
    IF state.HeadBlockHash = ZeroHash
    THEN {STATUS_INVALID(e, bk, "", <<>>)}
    ELSE LET block == GetBlockByHash(bk, state.HeadBlockHash) IN
         IF block = ZeroHash
         THEN {STATUS_SYNCING(e, bk)}
         ELSE IF IsPreMerge(block)
         THEN {STATUS_INVALID(e, bk, "pre-merge blocks not supported", <<>>)}
         ELSE IF ~HeadIsCanonical(bk, block, state)
         THEN LET sc == SetCanonical(bk, block) IN
              IF ~sc.ok
              THEN {FcResult(e, sc.backend, "INVALID", <<sc.latestValid>>,
                             "SetCanonical failed", ZeroPayloadID, <<"SetCanonical">>, "")}
              ELSE FcFinalized(e, sc.backend, state, attr, <<"SetCanonical">>)
         ELSE IF CurrentBlock(bk) = state.HeadBlockHash
         THEN FcFinalized(e, bk, state, attr, <<>>)
         ELSE IF ~bk.optimism
         THEN {FcResult(e, bk, "PANIC", NilHashPtr,
                        "engine not configured as optimism engine", ZeroPayloadID, <<>>, "")}
         ELSE FcFinalized(e, bk, state, attr, <<>>)

----------------------------------------------------------------------------
(* Payload insertion *)

\* an ExecutionPayload carries the fields of block `block` of the universe
\* and claims the hash BlockHash
Payload(b, h) == [block |-> b, BlockHash |-> h]

\* engine.ExecutableDataToBlock: fails unless the claimed hash is the block's
ExecutableDataToBlock(payload) ==
    IF payload.BlockHash = payload.block THEN payload.block ELSE ZeroHash

\* mutant: an equal timestamp is let through
TimestampNotAfter_Strict(block, parent) == Time(block) < Time(parent)

\* line 359: the block's timestamp does not advance its parent's
TimestampNotAfter(block, parent) == Time(block) <= Time(parent)

\* invalid(err, latestValid)
invalid(bk, err, latestValid) ==
    LET currentHash ==
            IF latestValid # ZeroHash
            THEN IF Difficulty(latestValid) = 0 THEN latestValid ELSE ZeroHash
            ELSE CurrentBlock(bk)
    IN [status |-> "INVALID", lvh |-> <<currentHash>>, err |-> err]

NpResult(bk, status, lvh, err, trace) ==
    [backend |-> bk, status |-> status, lvh |-> lvh, err |-> err, trace |-> trace]

\* mutant: a stored block is not recognised
AlreadyKnown_Never(bk, payload) == FALSE

\* line 345: a block with the payload's hash is stored
AlreadyKnown(bk, payload) == GetBlockByHash(bk, payload.BlockHash) # ZeroHash

\* NewPayloadV1(payload)
NewPayloadV1(bk, payload) ==
    LET block == ExecutableDataToBlock(payload) IN
    IF block = ZeroHash
    THEN NpResult(bk, "INVALID_BLOCK_HASH", NilHashPtr, "", <<>>)
    ELSE IF AlreadyKnown(bk, payload)
    THEN NpResult(bk, "VALID", <<GetBlockByHash(bk, payload.BlockHash)>>, "", <<>>)
    ELSE LET parent == GetBlock(bk, ParentHash(block), Number(block) - 1) IN
         IF parent = ZeroHash
         THEN NpResult(bk, "ACCEPTED", NilHashPtr, "", <<>>)
         ELSE IF TimestampNotAfter(block, parent)
         THEN LET r == invalid(bk, "invalid timestamp", parent) IN
              NpResult(bk, r.status, r.lvh, r.err, <<>>)
         ELSE IF ~HasBlockAndState(bk, ParentHash(block), Number(block) - 1)
         THEN NpResult(bk, "ACCEPTED", NilHashPtr, "", <<>>)
         ELSE LET ins == InsertBlockWithoutSetHead(bk, block) IN
              IF ~ins.ok
              THEN LET r == invalid(ins.backend, "insert failed", parent) IN
                   NpResult(ins.backend, r.status, r.lvh, r.err,
                            <<"InsertBlockWithoutSetHead">>)
              ELSE NpResult(ins.backend, "VALID", <<block>>, "",
                            <<"InsertBlockWithoutSetHead">>)

----------------------------------------------------------------------------
(* State machine: one action per driver-facing call *)

ForkchoiceState(head, safe, fin) ==
    [HeadBlockHash |-> head, SafeBlockHash |-> safe, FinalizedBlockHash |-> fin]

NoCall ==
    [op |-> "none", state |-> ForkchoiceState(ZeroHash, ZeroHash, ZeroHash),
     attr |-> NilAttr, payloadId |-> ZeroPayloadID, tx |-> BadTx, from |-> "",
     payload |-> Payload(ZeroHash, ZeroHash), status |-> "", lvh |-> NilHashPtr,
     err |-> "", pid |-> ZeroPayloadID, trace |-> <<>>, start |-> "",
     executed |-> FALSE, block |-> NilBlock, open |-> FALSE, again |-> FALSE,
     tick |-> 0]

\* the record of a new call: open tells whether a build was open when the
\* call was made; again tells whether a ForkchoiceUpdatedV1 call without
\* attributes repeats the (head, safe, finalized) of the call just before
\* it, made without attributes too and answered Valid; tick alternates, so
\* that a call repeating the previous one with the same result is still a
\* step
NewCall(op) ==
    [NoCall EXCEPT !.op = op, !.open = ~ea.l2BuildingHeader.nil,
                   !.tick = 1 - lastCall.tick]

\* the last startBlock call that assigned the building fields: whether it
\* returned nil, its arguments, how many deposits it included, how long the
\* failed-transaction log was when it returned, and how many GetPayloadV1
\* calls have succeeded since
NoBuild ==
    [started |-> FALSE, ok |-> FALSE, parent |-> ZeroHash, params |-> NilAttr,
     deposits |-> 0, failed |-> 0, retrievals |-> 0]

\* the backends before the first call: blocks 1-2-3 are stored;
\*  - head 2, block 3 off the canonical chain, with its state or without;
\*  - head 3, the state of block 2 pruned
InitBackend(hs, cur, opt) ==
    [known |-> {1, 2, 3}, hasState |-> hs,
     canon |-> [n \in Heights |-> IF n <= Number(cur) THEN Ancestor(cur, n) ELSE ZeroHash],
     current |-> cur, safe |-> ZeroHash, final |-> ZeroHash, optimism |-> opt]

InitWith(backends) ==
    /\ ea = NewL2EngineAPI
    /\ backend \in backends
    /\ lastCall = NoCall
    /\ build = NoBuild

CallForkchoiceUpdatedV1(head, safe, fin, attr) ==
    \E r \in ForkchoiceUpdatedV1(ea, backend, ForkchoiceState(head, safe, fin), attr) :
        /\ Len(r.ea.l2TxFailed) <= MaxFailed
        /\ ea' = r.ea
        /\ backend' = r.backend
        /\ build' = IF r.start \in {"ok", "failed"}
                    THEN [started |-> TRUE, ok |-> r.start = "ok",
                          parent |-> head, params |-> attr,
                          deposits |-> Len(r.ea.l2Transactions),
                          failed |-> Len(r.ea.l2TxFailed), retrievals |-> 0]
                    ELSE build
        /\ lastCall' = [NewCall("ForkchoiceUpdatedV1") EXCEPT
                          !.state = ForkchoiceState(head, safe, fin),
                          !.attr = attr, !.status = r.status, !.lvh = r.lvh,
                          !.err = r.err, !.pid = r.pid, !.trace = r.trace,
                          !.start = r.start,
                          !.again = /\ lastCall.op = "ForkchoiceUpdatedV1"
                                    /\ lastCall.attr.nil
                                    /\ lastCall.status = "VALID" /\ attr.nil
                                    /\ lastCall.state = ForkchoiceState(head, safe, fin)]

CallIncludeTx(tx, from) ==
    \E r \in IncludeTx(ea, tx, from) :
        /\ Len(r.ea.l2TxFailed) <= MaxFailed
        /\ ea' = r.ea
        /\ lastCall' = [NewCall("IncludeTx") EXCEPT
                          !.tx = tx, !.from = from,
                          !.err = r.err, !.executed = r.executed]
        /\ UNCHANGED <<backend, build>>

CallGetPayloadV1(payloadId) ==
    LET r == GetPayloadV1(ea, payloadId) IN
        /\ ea' = r.ea
        /\ lastCall' = [NewCall("GetPayloadV1") EXCEPT
                          !.payloadId = payloadId,
                          !.err = r.err, !.block = r.block]
        /\ build' = IF r.err = "" THEN [build EXCEPT !.retrievals = @ + 1] ELSE build
        /\ UNCHANGED backend

CallNewPayloadV1(payload) ==
    LET r == NewPayloadV1(backend, payload) IN
        /\ backend' = r.backend
        /\ lastCall' = [NewCall("NewPayloadV1") EXCEPT
                          !.payload = payload,
                          !.status = r.status, !.lvh = r.lvh, !.err = r.err,
                          !.trace = r.trace]
        /\ UNCHANGED <<ea, build>>

----------------------------------------------------------------------------
(* Inputs of the driver *)

\* deposits: two cheap ones and an undecodable one
Deposit1 == <<126, 1>>
Deposit2 == <<127, 1>>
DepositBad == <<126>>

\* timestamp used by every build
BuildTime == 9

\* attributes of the builder runs: with and without deposits, with a gas
\* limit the deposits exhaust, with an undecodable deposit, and forced empty
BuildAttrs ==
    { Attr(BuildTime, FALSE, <<>>, 1),
      Attr(BuildTime, FALSE, <<>>, MaxGas),
      Attr(BuildTime, FALSE, <<Deposit1, Deposit2>>, 1),
      Attr(BuildTime, FALSE, <<Deposit1, Deposit2>>, MaxGas + 1),
      Attr(BuildTime, FALSE, <<Deposit1, DepositBad>>, MaxGas),
      Attr(BuildTime, TRUE, <<Deposit1, Deposit2>>, MaxGas) }

\* pool transactions with their senders: a cheap one and one of gas MaxGas
PoolCalls ==
    { <<UnmarshalBinary(<<2, 1>>), "alice">>, <<UnmarshalBinary(<<3, MaxGas>>), "bob">> }

\* a payload id no build of these runs has
ForeignPayloadID == computePayloadId(2, Attr(BuildTime + 1, FALSE, <<>>, 1))

\* well-formed payloads of the blocks, and one whose hash does not match
Payloads == { Payload(b, b) : b \in Blocks \ {1, 3} } \cup { Payload(4, 3) }

\* Builder runs: every attribute set on heads 2 and 3, no safe/finalized
\* hash; the driver retrieves with the zero id, the id of the latest build or
\* a foreign id
Init ==
    InitWith({InitBackend({1, 2, 3}, 2, TRUE), InitBackend({1, 3}, 3, TRUE)})

Next ==
    \/ \E head \in {2, 3}, attr \in BuildAttrs \cup {NilAttr} :
          CallForkchoiceUpdatedV1(head, ZeroHash, ZeroHash, attr)
    \/ \E c \in PoolCalls : CallIncludeTx(c[1], c[2])
    \/ \E id \in {ZeroPayloadID, ea.payloadID, ForeignPayloadID} : CallGetPayloadV1(id)
    \/ \E payload \in {Payload(4, 4)} : CallNewPayloadV1(payload)

Spec == Init /\ [][Next]_vars

\* Fork-choice runs: every head / safe / finalized combination over the zero
\* hash, the pre-merge block 1, the chain 2-3 and the fork block 4 (unknown
\* until inserted), with or without a forced-empty build
FcAttr == Attr(BuildTime, TRUE, <<>>, MaxGas)

InitForkchoice ==
    InitWith({InitBackend({1, 2, 3}, 2, TRUE), InitBackend({1, 2, 3}, 2, FALSE),
              InitBackend({1, 2}, 2, TRUE)})

NextForkchoice ==
    \/ \E head \in {ZeroHash, 1, 2, 3, 4}, safe \in {ZeroHash, 3, 4},
          fin \in {ZeroHash, 3, 4}, attr \in {NilAttr, FcAttr} :
          CallForkchoiceUpdatedV1(head, safe, fin, attr)
    \/ \E c \in {<<UnmarshalBinary(<<2, 1>>), "alice">>} : CallIncludeTx(c[1], c[2])
    \/ \E id \in {ea.payloadID} : CallGetPayloadV1(id)
    \/ \E payload \in {Payload(4, 4)} : CallNewPayloadV1(payload)

SpecForkchoice == InitForkchoice /\ [][NextForkchoice]_vars

\* Payload-insertion runs: every payload, heads moving over blocks 2, 3, 4
InitPayload ==
    InitWith({InitBackend({1, 2, 3}, 2, TRUE), InitBackend({1, 2}, 2, TRUE)})

NextPayload ==
    \/ \E head \in {2, 3, 4}, attr \in {NilAttr, FcAttr} :
          CallForkchoiceUpdatedV1(head, ZeroHash, ZeroHash, attr)
    \/ \E c \in {<<UnmarshalBinary(<<2, 1>>), "alice">>} : CallIncludeTx(c[1], c[2])
    \/ \E id \in {ea.payloadID} : CallGetPayloadV1(id)
    \/ \E payload \in Payloads : CallNewPayloadV1(payload)

SpecPayload == InitPayload /\ [][NextPayload]_vars

----------------------------------------------------------------------------
(* Claims *)

IsFcu(c) == c.op = "ForkchoiceUpdatedV1"

BuildOpen == ~ea.l2BuildingHeader.nil

\* C1: single-shot retrieval.  GetPayloadV1(id) succeeds at most once per
\* successful startBlock that produced id: the successful retrievals since
\* the last startBlock number at most one if that startBlock returned nil and
\* none otherwise, and a successful retrieval carries that build's id.
C1_SingleShotRetrieval ==
    /\ build.retrievals <= IF build.started /\ build.ok THEN 1 ELSE 0
    /\ (lastCall.op = "GetPayloadV1" /\ lastCall.err = "")
          => lastCall.payloadId = computePayloadId(build.parent, build.params)

\* the part of C1 the code keeps: at most one retrieval per startBlock,
\* successful or not
C1_AtMostOncePerStart == build.retrievals <= 1

\* C2: a failed build start leaves no partial state.  After a
\* ForkchoiceUpdatedV1 call whose startBlock returned an error no build is
\* open: the building header is unset, IncludeTx answers ErrNotBuildingBlock
\* and GetPayloadV1 with the id of the failed attributes answers
\* UnknownPayload.
C2_FailedStartLeavesNoBuild ==
    (IsFcu(lastCall) /\ lastCall.start \in {"failed", "rejected"})
       => /\ ea.l2BuildingHeader.nil
          /\ \A c \in PoolCalls : \A r \in IncludeTx(ea, c[1], c[2]) :
                r.err = "ErrNotBuildingBlock"
          /\ GetPayloadV1(ea, computePayloadId(lastCall.state.HeadBlockHash,
                                               lastCall.attr)).err = "UnknownPayload"

\* the requested hashes of a call, and what the trace of a call holds
ReqHead(c) == c.state.HeadBlockHash
ReqSafe(c) == c.state.SafeBlockHash
ReqFinalized(c) == c.state.FinalizedBlockHash
Invoked(c, fn) == \E i \in 1..Len(c.trace) : c.trace[i] = fn
Before(c, f, g) ==
    \A i, j \in 1..Len(c.trace) : (c.trace[i] = f /\ c.trace[j] = g) => i < j

\* hash h is a stored header that is canonical at its height in backend bk
KnownCanonical(bk, h) == h \in bk.known /\ bk.canon[Number(h)] = h

\* two ForkchoiceUpdatedV1 calls in succession with the same (head, safe,
\* finalized) and no attributes
RepeatedForkchoice(c, d) ==
    /\ IsFcu(c) /\ c.attr.nil
    /\ IsFcu(d) /\ d.attr.nil
    /\ d.state = c.state

\* C3 as stated: idempotent forkchoice.  When ForkchoiceUpdatedV1 is called
\* twice in succession with the same (head, safe, finalized) and no
\* attributes, both calls return Valid, the second call does not invoke
\* SetCanonical and leaves the backend's canonical head, safe pointer and
\* final pointer as the first call left them.
C3_IdempotentForkchoice_Stated ==
    [][ RepeatedForkchoice(lastCall, lastCall')
        => /\ lastCall.status = "VALID"
           /\ lastCall'.status = "VALID"
           /\ ~Invoked(lastCall', "SetCanonical")
           /\ backend'.current = backend.current
           /\ backend'.canon = backend.canon
           /\ backend'.safe = backend.safe
           /\ backend'.final = backend.final ]_vars

\* C3 amended: when the first of the two calls returned Valid, the second
\* call returns Valid too, does not invoke SetCanonical and leaves the
\* backend's canonical head, safe pointer and final pointer as the first call
\* left them.
C3_IdempotentForkchoice ==
    [][ (RepeatedForkchoice(lastCall, lastCall') /\ lastCall.status = "VALID")
        => /\ lastCall'.status = "VALID"
           /\ ~Invoked(lastCall', "SetCanonical")
           /\ backend'.current = backend.current
           /\ backend'.canon = backend.canon
           /\ backend'.safe = backend.safe
           /\ backend'.final = backend.final ]_vars

\* the call repeats the one just before it, which had returned Valid, with
\* head, safe and finalized hash all block 3 (not the head at the start):
\* it is answered Valid and finds the head and both pointers in place
C3_Witness ==
    /\ IsFcu(lastCall) /\ lastCall.attr.nil /\ lastCall.again
    /\ lastCall.status = "VALID"
    /\ lastCall.trace = <<"SetFinalized", "SetSafe">>
    /\ ReqHead(lastCall) = 3 /\ ReqSafe(lastCall) = 3 /\ ReqFinalized(lastCall) = 3
    /\ backend.current = 3 /\ backend.safe = 3 /\ backend.final = 3

\* C4: ordering inside one ForkchoiceUpdatedV1 call.  SetCanonical comes
\* before SetFinalized / SetSafe and startBlock comes last; startBlock is
\* invoked only when the head is canonical and every non-zero safe / finalized
\* hash passed its check (and was set); when SetCanonical fails or a check
\* fails startBlock is not invoked, and a call that does not invoke startBlock
\* leaves the open build untouched; a build that is started has the requested
\* head as parent, canonical at its height.
C4_ForkchoiceOrdering ==
    [][ IsFcu(lastCall') =>
          LET c == lastCall' IN
          /\ Before(c, "SetCanonical", "SetFinalized")
          /\ Before(c, "SetCanonical", "SetSafe")
          /\ Before(c, "SetCanonical", "startBlock")
          /\ Before(c, "SetFinalized", "startBlock")
          /\ Before(c, "SetSafe", "startBlock")
          /\ Invoked(c, "startBlock") =>
                /\ KnownCanonical(backend', ReqHead(c))
                /\ ReqSafe(c) # ZeroHash =>
                      KnownCanonical(backend', ReqSafe(c)) /\ backend'.safe = ReqSafe(c)
                /\ ReqFinalized(c) # ZeroHash =>
                      KnownCanonical(backend', ReqFinalized(c))
                      /\ backend'.final = ReqFinalized(c)
          /\ c.err \in {"SetCanonical failed",
                        "safe block not available in database",
                        "safe block not in canonical chain",
                        "final block not available in database",
                        "final block not in canonical chain"}
                => ~Invoked(c, "startBlock")
          /\ ~Invoked(c, "startBlock") => ea' = ea
          /\ c.start \in {"ok", "failed"} =>
                /\ ea'.l2BuildingHeader.ParentHash = ReqHead(c)
                /\ KnownCanonical(backend', ReqHead(c)) ]_vars

\* a call that moved the head, set both pointers and started a build
C4_Witness ==
    /\ IsFcu(lastCall)
    /\ lastCall.trace = <<"SetCanonical", "SetFinalized", "SetSafe", "startBlock">>
    /\ lastCall.status = "VALID" /\ BuildOpen

\* a safe / finalized hash that fails its check in backend bk
BadPointer(bk, h) == h # ZeroHash /\ ~KnownCanonical(bk, h)

\* C5 as stated: a non-zero safe / finalized hash that does not resolve or is
\* not canonical at its height (when checked) makes ForkchoiceUpdatedV1
\* return Invalid with that pointer not updated; a Valid call leaves each
\* pointer at the requested header, or unchanged for a zero hash.
C5_PointerReconciliation_Stated ==
    [][ IsFcu(lastCall') =>
          LET c == lastCall' IN
          /\ BadPointer(backend', ReqSafe(c)) =>
                c.status = "INVALID" /\ backend'.safe = backend.safe
          /\ BadPointer(backend', ReqFinalized(c)) =>
                c.status = "INVALID" /\ backend'.final = backend.final
          /\ c.status = "VALID" =>
                /\ backend'.safe = IF ReqSafe(c) # ZeroHash THEN ReqSafe(c) ELSE backend.safe
                /\ backend'.final = IF ReqFinalized(c) # ZeroHash THEN ReqFinalized(c)
                                    ELSE backend.final ]_vars

\* the outcomes of a call whose safe / finalized hash fails its check:
\* Invalid, or the outcome of the head step when that ends the call first
\* (Syncing for an unknown head, a panic on a backend not configured as an
\* Optimism chain)
RejectedPointerOutcome(bk, c) ==
    \/ c.status = "INVALID"
    \/ c.status = "SYNCING" /\ ReqHead(c) \notin bk.known
    \/ c.status = "PANIC" /\ ~bk.optimism

\* C5 amended: such a hash never lets the call return Valid - the call
\* returns Invalid unless the head step ended it first - and that pointer is
\* not updated; a Valid call leaves each pointer at the requested header, or
\* unchanged for a zero hash.
C5_PointerReconciliation ==
    [][ IsFcu(lastCall') =>
          LET c == lastCall' IN
          /\ BadPointer(backend', ReqSafe(c)) =>
                RejectedPointerOutcome(backend, c) /\ backend'.safe = backend.safe
          /\ BadPointer(backend', ReqFinalized(c)) =>
                RejectedPointerOutcome(backend, c) /\ backend'.final = backend.final
          /\ c.status = "VALID" =>
                /\ backend'.safe = IF ReqSafe(c) # ZeroHash THEN ReqSafe(c) ELSE backend.safe
                /\ backend'.final = IF ReqFinalized(c) # ZeroHash THEN ReqFinalized(c)
                                    ELSE backend.final ]_vars

\* a call with a good head and finalized hash whose stored safe hash is off
\* the canonical chain was answered Invalid
C5_Witness ==
    /\ IsFcu(lastCall) /\ lastCall.status = "INVALID"
    /\ KnownCanonical(backend, ReqHead(lastCall))
    /\ KnownCanonical(backend, ReqFinalized(lastCall))
    /\ ReqSafe(lastCall) \in backend.known /\ BadPointer(backend, ReqSafe(lastCall))

\* C6: pre-transition rejection.  A requested head that resolves to a block
\* of nonzero difficulty makes ForkchoiceUpdatedV1 return Invalid whatever the
\* safe / finalized hashes and attributes, with no backend call made and the
\* backend and the build unchanged.
C6_PreMergeRejected ==
    [][ ( /\ IsFcu(lastCall')
          /\ ReqHead(lastCall') \in backend.known
          /\ Difficulty(ReqHead(lastCall')) > 0 )
        => /\ lastCall'.status = "INVALID"
           /\ lastCall'.trace = <<>>
           /\ backend' = backend
           /\ ea' = ea ]_vars

\* a pre-merge head was requested with canonical safe and finalized hashes,
\* with attributes and with a build open
C6_Witness ==
    /\ IsFcu(lastCall) /\ ReqHead(lastCall) \in backend.known
    /\ Difficulty(ReqHead(lastCall)) > 0
    /\ KnownCanonical(backend, ReqSafe(lastCall))
    /\ KnownCanonical(backend, ReqFinalized(lastCall))
    /\ ~lastCall.attr.nil /\ BuildOpen
    /\ lastCall.status = "INVALID"

\* C7: an unknown head reports Syncing and takes no further action.  A
\* non-zero requested head the backend does not store makes
\* ForkchoiceUpdatedV1 return Syncing without a payload id and leaves the
\* canonical / safe / final pointers and the open build unchanged.
C7_UnknownHeadSyncing ==
    [][ ( /\ IsFcu(lastCall')
          /\ ReqHead(lastCall') # ZeroHash
          /\ ReqHead(lastCall') \notin backend.known )
        => /\ lastCall'.status = "SYNCING"
           /\ lastCall'.pid = ZeroPayloadID
           /\ lastCall'.trace = <<>>
           /\ backend' = backend
           /\ ea' = ea ]_vars

\* an unknown head was requested with canonical safe and finalized hashes,
\* with attributes and with a build open
C7_Witness ==
    /\ IsFcu(lastCall) /\ ReqHead(lastCall) # ZeroHash
    /\ ReqHead(lastCall) \notin backend.known
    /\ KnownCanonical(backend, ReqSafe(lastCall))
    /\ KnownCanonical(backend, ReqFinalized(lastCall))
    /\ ~lastCall.attr.nil /\ BuildOpen
    /\ lastCall.status = "SYNCING"

\* total gas used by the transactions a receipt list stands for
RECURSIVE SumGas(_)
SumGas(receipts) ==
    IF receipts = <<>> THEN 0 ELSE Head(receipts).gasUsed + SumGas(Tail(receipts))

\* C8: gas accounting.  While a build opened by a successful startBlock is
\* open, RemainingBlockGas is the build's gas limit minus the gas used by the
\* transactions applied so far, also after an IncludeTx whose application
\* failed; and IncludeTx invokes execution only for a transaction whose gas
\* fits the remaining pool.
C8_GasAccounting ==
    [][ /\ (BuildOpen' /\ build'.ok) =>
              /\ ~RemainingBlockGas(ea').panic
              /\ RemainingBlockGas(ea').gas =
                    ea'.l2BuildingHeader.GasLimit - SumGas(ea'.l2Receipts)
        /\ (lastCall'.op = "IncludeTx" /\ lastCall'.executed) =>
              /\ ~RemainingBlockGas(ea).panic
              /\ lastCall'.tx.gas <= RemainingBlockGas(ea).gas ]_vars

\* the part of C8 the code keeps: execution is never invoked for a
\* transaction whose gas exceeds the remaining pool, and the pool equals the
\* gas limit minus the gas of the receipts as long as no application failed
\* after its gas was bought
C8_NoExecutionBeyondPool ==
    [][ (lastCall'.op = "IncludeTx" /\ lastCall'.executed) =>
           /\ ~RemainingBlockGas(ea).panic
           /\ lastCall'.tx.gas <= RemainingBlockGas(ea).gas ]_vars

\* the transactions the deposits of params decode to
DepositHashes(params) ==
    [i \in 1..Len(params.Transactions) |-> UnmarshalBinary(params.Transactions[i]).hash]

\* C9: force-empty backpressure.  While a build started (successfully) with
\* the no-pool flag is open, every IncludeTx call returns nil without
\* executing anything and leaves every building field as it was, and the
\* block GetPayloadV1 seals holds exactly the deposits of the attributes.
C9_ForceEmpty ==
    [][ (BuildOpen /\ build.ok /\ build.params.NoTxPool) =>
          /\ lastCall'.op = "IncludeTx" =>
                lastCall'.err = "" /\ ~lastCall'.executed /\ ea' = ea
          /\ (lastCall'.op = "GetPayloadV1" /\ lastCall'.err = "") =>
                lastCall'.block.Transactions = DepositHashes(build.params) ]_vars

\* IncludeTx was called on an open forced-empty build that holds its deposits
C9_Witness ==
    /\ lastCall.op = "IncludeTx" /\ lastCall.err = ""
    /\ BuildOpen /\ build.ok /\ build.params.NoTxPool
    /\ Len(ea.l2Transactions) = 2

\* C10: timestamp monotonicity.  NewPayloadV1 with a well-formed candidate
\* whose parent resolves and whose timestamp does not exceed the parent's
\* returns Invalid with latest-valid the parent's hash, or the zero hash for
\* a parent of nonzero difficulty, and never inserts the candidate.
C10_TimestampMonotonicity ==
    [][ ( /\ lastCall'.op = "NewPayloadV1"
          /\ ExecutableDataToBlock(lastCall'.payload) # ZeroHash
          /\ LET b == lastCall'.payload.block IN
             /\ GetBlock(backend, ParentHash(b), Number(b) - 1) # ZeroHash
             /\ Time(b) <= Time(ParentHash(b)) )
        => /\ lastCall'.status = "INVALID"
           /\ lastCall'.lvh =
                 <<IF Difficulty(ParentHash(lastCall'.payload.block)) = 0
                   THEN ParentHash(lastCall'.payload.block) ELSE ZeroHash>>
           /\ ~Invoked(lastCall', "InsertBlockWithoutSetHead")
           /\ backend' = backend ]_vars

\* a candidate as old as its pre-merge parent was answered Invalid with the
\* zero hash
C10_Witness ==
    /\ lastCall.op = "NewPayloadV1" /\ lastCall.status = "INVALID"
    /\ Time(lastCall.payload.block) = Time(ParentHash(lastCall.payload.block))
    /\ Difficulty(ParentHash(lastCall.payload.block)) > 0
    /\ lastCall.lvh = <<ZeroHash>>

\* C11: single-build invariant.  A successful startBlock while another build
\* is open does not merge state: afterwards the included transactions and
\* the receipts are those of the new build's deposits, every pendingIndices
\* count is zero, the gas pool is the new gas limit minus the gas the new
\* deposits used, header and working state are those of the new parent, and
\* the previous build's payload id no longer lets GetPayloadV1 through unless
\* it equals the new id.
C11_SingleBuild ==
    [][ (IsFcu(lastCall') /\ lastCall'.start = "ok" /\ BuildOpen) =>
          LET c == lastCall' IN
          /\ ea'.l2Transactions = DepositHashes(c.attr)
          /\ Len(ea'.l2Receipts) = Len(c.attr.Transactions)
          /\ \A i \in 1..Len(ea'.l2Receipts) :
                ea'.l2Receipts[i].tx = DepositHashes(c.attr)[i]
          /\ \A s \in Senders : PendingIndices(ea', s) = 0
          /\ ~RemainingBlockGas(ea').panic
          /\ RemainingBlockGas(ea').gas = c.attr.GasLimit - SumGas(ea'.l2Receipts)
          /\ ~ea'.l2BuildingHeader.nil
          /\ ea'.l2BuildingHeader.ParentHash = ReqHead(c)
          /\ ea'.l2BuildingHeader.Number = Number(ReqHead(c)) + 1
          /\ ea'.l2BuildingHeader.GasLimit = c.attr.GasLimit
          /\ ea'.l2BuildingHeader.Time = c.attr.Timestamp
          /\ ea'.l2BuildingState =
                [nil |-> FALSE, root |-> ReqHead(c), applied |-> DepositHashes(c.attr)]
          /\ ea'.l2ForceEmpty = c.attr.NoTxPool
          /\ ea.payloadID # ea'.payloadID =>
                GetPayloadV1(ea', ea.payloadID).err = "UnknownPayload" ]_vars

\* a build with two deposits was started on block 3 while another build was
\* open, after a transaction had failed
C11_Witness ==
    /\ IsFcu(lastCall) /\ lastCall.start = "ok" /\ lastCall.open
    /\ ReqHead(lastCall) = 3 /\ Len(ea.l2Transactions) = 2
    /\ Len(ea.l2TxFailed) > 0 /\ BuildOpen

\* C12: a mismatching id does not touch the build.  GetPayloadV1(id) with an
\* id other than the open build's fails with UnknownPayload and leaves every
\* building field as it was: the build is still retrievable under its own id
\* and IncludeTx still finds a build.
C12_MismatchKeepsBuild ==
    [][ ( /\ lastCall'.op = "GetPayloadV1"
          /\ BuildOpen
          /\ lastCall'.payloadId # ea.payloadID )
        => /\ lastCall'.err = "UnknownPayload"
           /\ lastCall'.block = NilBlock
           /\ ea' = ea
           /\ GetPayloadV1(ea', ea'.payloadID).err = ""
           /\ GetPayloadV1(ea', ea'.payloadID).block.Transactions = ea.l2Transactions
           /\ \A c \in PoolCalls : \A r \in IncludeTx(ea', c[1], c[2]) :
                 r.err # "ErrNotBuildingBlock" ]_vars

\* a foreign id was refused while a successfully started build holding
\* transactions was open
C12_Witness ==
    /\ lastCall.op = "GetPayloadV1" /\ lastCall.err = "UnknownPayload"
    /\ lastCall.payloadId = ForeignPayloadID
    /\ lastCall.open /\ BuildOpen /\ build.ok
    /\ Len(ea.l2Transactions) > 0

\* C13: idempotent re-submission.  NewPayloadV1 for a well-formed candidate
\* whose hash the backend already stores returns Valid with that hash as
\* latest-valid and does not call InsertBlockWithoutSetHead; so after a
\* NewPayloadV1 call returned Valid, submitting the same payload again returns
\* Valid with the same latest-valid hash and inserts nothing.
C13_IdempotentResubmission ==
    [][ lastCall'.op = "NewPayloadV1" =>
          LET p == lastCall'.payload IN
          /\ (ExecutableDataToBlock(p) # ZeroHash /\ p.BlockHash \in backend.known)
                => /\ lastCall'.status = "VALID"
                   /\ lastCall'.lvh = <<p.BlockHash>>
                   /\ ~Invoked(lastCall', "InsertBlockWithoutSetHead")
                   /\ backend' = backend
          /\ (lastCall.op = "NewPayloadV1" /\ lastCall.status = "VALID"
                 /\ lastCall.payload = p)
                => /\ lastCall'.status = "VALID"
                   /\ lastCall'.lvh = lastCall.lvh
                   /\ ~Invoked(lastCall', "InsertBlockWithoutSetHead")
                   /\ backend' = backend ]_vars

\* the payload of block 4, stored only once an earlier call has inserted it,
\* was submitted again and answered Valid without an insertion
C13_Witness ==
    /\ lastCall.op = "NewPayloadV1" /\ lastCall.payload = Payload(4, 4)
    /\ lastCall.status = "VALID" /\ lastCall.lvh = <<4>>
    /\ lastCall.trace = <<>> /\ 4 \in backend.known

\* a ForkchoiceUpdatedV1 call whose startBlock assigned the building fields
Started(c) == IsFcu(c) /\ c.start \in {"ok", "failed"}

\* C14: payload-id determinism.  The id startBlock stores is a function of
\* the parent hash and the attributes alone: it is the id computed from them,
\* the same id a freshly constructed engine stores for the same inputs
\* whatever builds, transactions and chain pointers came before; a Valid
\* call hands out that id; and no other call (IncludeTx, GetPayloadV1,
\* NewPayloadV1, a ForkchoiceUpdatedV1 that starts nothing) changes it.
C14_PayloadIdDeterminism ==
    [][ /\ Started(lastCall') =>
              /\ ea'.payloadID = computePayloadId(ReqHead(lastCall'), lastCall'.attr)
              /\ \A r \in startBlock(NewL2EngineAPI, backend', ReqHead(lastCall'),
                                     lastCall'.attr) :
                    r.assigned /\ r.ea.payloadID = ea'.payloadID
        /\ (IsFcu(lastCall') /\ lastCall'.start = "ok") =>
              lastCall'.pid = ea'.payloadID
        /\ ~Started(lastCall') => ea'.payloadID = ea.payloadID ]_vars

\* the build with two deposits on block 3 was started over an open build,
\* after a transaction had failed, and got the id of its inputs
C14_Witness ==
    /\ Started(lastCall) /\ lastCall.start = "ok" /\ lastCall.open
    /\ Len(ea.l2TxFailed) > 0
    /\ lastCall.pid =
          computePayloadId(3, Attr(BuildTime, FALSE, <<Deposit1, Deposit2>>, MaxGas + 1))

\* C15: the failed transactions belong to the current build.  After any
\* startBlock the failed-transaction list holds only transactions rejected
\* during the build just started: none after a start that returned nil, at
\* most the one deposit whose application made the start fail otherwise; and
\* while the build goes on the list grows only by the transaction of a failed
\* IncludeTx, at its end.
C15_FailedBelongsToBuild ==
    [][ /\ Started(lastCall') =>
              /\ lastCall'.start = "ok" => ea'.l2TxFailed = <<>>
              /\ Len(ea'.l2TxFailed) <= 1
              /\ \A i \in 1..Len(ea'.l2TxFailed) :
                    \E j \in 1..Len(lastCall'.attr.Transactions) :
                       ea'.l2TxFailed[i] = DepositHashes(lastCall'.attr)[j]
        /\ lastCall'.op = "IncludeTx" =>
              ea'.l2TxFailed = IF lastCall'.executed /\ lastCall'.err # ""
                               THEN Append(ea.l2TxFailed, lastCall'.tx.hash)
                               ELSE ea.l2TxFailed ]_vars

\* the part of C15 the code keeps: the failed-transaction list is a log that
\* only grows, by the transactions that fail, in the order they fail
C15_FailedLogAppendOnly ==
    [][ \E k \in 0..1 : /\ Len(ea'.l2TxFailed) = Len(ea.l2TxFailed) + k
                         /\ SubSeq(ea'.l2TxFailed, 1, Len(ea.l2TxFailed)) = ea.l2TxFailed
      ]_vars

\* the sum of pendingIndices over the senders of set S
RECURSIVE SumPending(_, _)
SumPending(e, S) ==
    IF S = {} THEN 0
    ELSE LET s == CHOOSE x \in S : TRUE IN
         PendingIndices(e, s) + SumPending(e, S \ {s})

\* IncludeTx(tx, from) on builder e gets past the no-build, force-empty and
\* both gas checks
PassesChecks(e, tx) ==
    /\ ~e.l2BuildingHeader.nil
    /\ ~ForcedEmpty(e)
    /\ tx.gas <= e.l2BuildingHeader.GasLimit
    /\ ~RemainingBlockGas(e).panic
    /\ tx.gas <= RemainingBlockGas(e).gas

\* C16: pendingIndices accounting.  An IncludeTx call that passes the
\* no-build, force-empty and gas checks raises pendingIndices[sender] by
\* exactly one, and no other count, whether the application succeeds or
\* fails; a call rejected with ErrNotBuildingBlock, ErrExceedsGasLimit or
\* ErrUsesTooMuchGas, or ignored under force-empty, leaves every building
\* field as it was.  Hence, while a build is open, the counts add up to the
\* included transactions that are not deposits plus the transactions that
\* failed in IncludeTx during this build.
C16_PendingAccounting ==
    [][ /\ lastCall'.op = "IncludeTx" =>
              LET c == lastCall' IN
              /\ c.executed <=> PassesChecks(ea, c.tx)
              /\ c.executed =>
                    \A s \in Senders :
                       PendingIndices(ea', s) =
                          PendingIndices(ea, s) + (IF s = c.from THEN 1 ELSE 0)
              /\ ~c.executed =>
                    /\ ea' = ea
                    /\ c.err = IF ea.l2BuildingHeader.nil THEN "ErrNotBuildingBlock"
                               ELSE IF ForcedEmpty(ea) THEN ""
                               ELSE IF c.tx.gas > ea.l2BuildingHeader.GasLimit
                               THEN "ErrExceedsGasLimit"
                               ELSE "ErrUsesTooMuchGas"
        /\ BuildOpen' =>
              SumPending(ea', Senders) =
                 (Len(ea'.l2Transactions) - build'.deposits)
                 + (Len(ea'.l2TxFailed) - build'.failed) ]_vars

\* in a build with deposits one IncludeTx failed and a later one succeeded
C16_Witness ==
    /\ lastCall.op = "IncludeTx" /\ lastCall.executed /\ lastCall.err = ""
    /\ BuildOpen /\ build.ok /\ build.deposits > 0
    /\ Len(ea.l2TxFailed) = build.failed + 1
    /\ SumPending(ea, Senders) = 2

\* C17: shape of the included sequence.  While a build opened by a
\* successful startBlock is open, the included-transaction list has the
\* length of the receipt list, receipt by receipt for the same transaction,
\* and begins with the deposits of the attributes in their order; IncludeTx
\* appends its transaction when the application succeeds and otherwise
\* leaves the list alone, so the deposits are followed by the successfully
\* applied transactions in call order; the block GetPayloadV1 returns
\* carries exactly this list.
C17_IncludedSequence ==
    [][ /\ (BuildOpen' /\ build'.ok) =>
              LET deposits == DepositHashes(build'.params) IN
              /\ Len(ea'.l2Transactions) = Len(ea'.l2Receipts)
              /\ \A i \in 1..Len(ea'.l2Receipts) :
                    ea'.l2Receipts[i].tx = ea'.l2Transactions[i]
              /\ Len(ea'.l2Transactions) >= Len(deposits)
              /\ SubSeq(ea'.l2Transactions, 1, Len(deposits)) = deposits
        /\ (BuildOpen /\ build.ok /\ lastCall'.op = "IncludeTx") =>
              ea'.l2Transactions =
                 IF lastCall'.executed /\ lastCall'.err = ""
                 THEN Append(ea.l2Transactions, lastCall'.tx.hash)
                 ELSE ea.l2Transactions
        /\ (BuildOpen /\ build.ok /\ lastCall'.op \in {"NewPayloadV1", "GetPayloadV1"}) =>
              ea'.l2Transactions = ea.l2Transactions
        /\ (BuildOpen /\ build.ok /\ IsFcu(lastCall') /\ ~Started(lastCall')) =>
              ea'.l2Transactions = ea.l2Transactions
        /\ (BuildOpen /\ build.ok /\ lastCall'.op = "GetPayloadV1"
               /\ lastCall'.err = "") =>
              /\ lastCall'.block.Transactions = ea.l2Transactions
              /\ Len(lastCall'.block.Receipts) = Len(ea.l2Transactions) ]_vars

\* the block retrieved holds the two deposits followed by a pool transaction
C17_Witness ==
    /\ lastCall.op = "GetPayloadV1" /\ lastCall.err = "" /\ build.ok
    /\ lastCall.block.Transactions = <<Deposit1, Deposit2, <<2, 1>>>>

\* C18: Valid means the head moved.  Whenever ForkchoiceUpdatedV1 returns
\* Valid the backend's current head is the requested head, also when the
\* requested head is a canonical ancestor of the current head on a backend
\* configured as an Optimism chain.
C18_ValidMeansHeadMoved ==
    (IsFcu(lastCall) /\ lastCall.status = "VALID")
       => CurrentBlock(backend) = ReqHead(lastCall)

\* the part of C18 the code keeps: after a Valid call the requested head is
\* the canonical block of its height, and it is the current head unless it
\* was already canonical below the current head
C18_ValidMeansHeadCanonical ==
    [][ (IsFcu(lastCall') /\ lastCall'.status = "VALID") =>
          /\ KnownCanonical(backend', ReqHead(lastCall'))
          /\ \/ CurrentBlock(backend') = ReqHead(lastCall')
             \/ /\ KnownCanonical(backend, ReqHead(lastCall'))
                /\ backend.optimism
                /\ CurrentBlock(backend') = CurrentBlock(backend) ]_vars

\* C19: pointer canonicity over sequences.  In every state any sequence of
\* ForkchoiceUpdatedV1, NewPayloadV1, IncludeTx and GetPayloadV1 calls
\* reaches, the backend's safe and finalized pointers, once set, reference
\* blocks that are canonical at their height - also after a later
\* ForkchoiceUpdatedV1 moved the head onto another fork with zero safe and
\* finalized hashes.
C19_PointersCanonical ==
    /\ backend.safe # ZeroHash => KnownCanonical(backend, backend.safe)
    /\ backend.final # ZeroHash => KnownCanonical(backend, backend.final)

\* the part of C19 the code keeps: a pointer is canonical at its height when
\* the call that sets it returns
C19_CanonicalWhenSet ==
    [][ IsFcu(lastCall') =>
          /\ Invoked(lastCall', "SetSafe") => KnownCanonical(backend', backend'.safe)
          /\ Invoked(lastCall', "SetFinalized") =>
                KnownCanonical(backend', backend'.final) ]_vars

\* the errors of the finalized check and of the safe check
FinalizedErrors ==
    {"final block not available in database", "final block not in canonical chain"}

SafeErrors ==
    {"safe block not available in database", "safe block not in canonical chain"}

\* C20 as stated: an Invalid forkchoice is all-or-nothing for the safe and
\* finalized pointers.  When ForkchoiceUpdatedV1 returns Invalid because the
\* requested safe or finalized hash is unavailable or not canonical, both
\* pointers are as before the call.
C20_InvalidAllOrNothing_Stated ==
    [][ ( /\ IsFcu(lastCall') /\ lastCall'.status = "INVALID"
          /\ lastCall'.err \in FinalizedErrors \cup SafeErrors )
        => /\ backend'.safe = backend.safe
           /\ backend'.final = backend.final ]_vars

\* C20 amended: when the call returns Invalid because of the finalized hash,
\* both pointers are as before the call; when it returns Invalid because of
\* the safe hash, the safe pointer is as before the call and the finalized
\* pointer is the requested finalized header, which passed its check and is
\* canonical, or as before the call for a zero finalized hash.
C20_InvalidPointerCommit ==
    [][ (IsFcu(lastCall') /\ lastCall'.status = "INVALID") =>
          LET c == lastCall' IN
          /\ c.err \in FinalizedErrors =>
                /\ backend'.safe = backend.safe
                /\ backend'.final = backend.final
                /\ BadPointer(backend', ReqFinalized(c))
          /\ c.err \in SafeErrors =>
                /\ backend'.safe = backend.safe
                /\ BadPointer(backend', ReqSafe(c))
                /\ ReqFinalized(c) = ZeroHash => backend'.final = backend.final
                /\ ReqFinalized(c) # ZeroHash =>
                      /\ backend'.final = ReqFinalized(c)
                      /\ KnownCanonical(backend', ReqFinalized(c))
                      /\ Invoked(c, "SetFinalized") ]_vars

\* a call was answered Invalid for its safe hash after it had committed its
\* finalized hash
C20_Witness ==
    /\ IsFcu(lastCall) /\ lastCall.status = "INVALID"
    /\ lastCall.err \in SafeErrors
    /\ lastCall.trace = <<"SetCanonical", "SetFinalized">>
    /\ ReqFinalized(lastCall) = 3 /\ backend.final = 3
    /\ backend.safe # ReqSafe(lastCall)

====
